---- MODULE Spec2Model ----
(***************************************************************************)
(* Model of the store-rating review engine.                                *)
(*                                                                         *)
(* The repository holds two stacks over the same schema of reviews and     *)
(* stores:                                                                 *)
(*   - "model": the Sequelize models Rating (src/src/models/Rating.js) and *)
(*     Store (src/src/models/Store.js), whose lifecycle hooks recompute a  *)
(*     store's aggregate with Store.prototype.updateRatingStats;           *)
(*   - "controller": the HTTP handlers of                                  *)
(*     src/src/controllers/reviewController.js, which persist through a    *)
(*     document model and recompute with the helper updateStoreRating.     *)
(* A run uses one of the two.  Every `await` of the source is one atomic   *)
(* step of a request; requests interleave between steps.  average_rating   *)
(* is kept in hundredths.                                                  *)
(***************************************************************************)
EXTENDS Integers, FiniteSets, Sequences, TLC

\* ---------------------------------------------------------------- bounds
MaxUsers == 2
MaxStores == 2
MaxProcs == 2
MaxOps == 2
MaxSerialOps == 3

Users == 1..MaxUsers
StoreIds == 1..MaxStores
Procs == 1..MaxProcs
\* a row id is used once; a run inserts at most one row per request
RatingIds == 1..(IF MaxOps > MaxSerialOps THEN MaxOps ELSE MaxSerialOps)

\* ------------------------------------------------------ program constants
NULL == "NULL"

\* a value the request body does not carry
UNDEFINED == "undefined"
FlagReasons == {"spam", "inappropriate", "fake", "offensive", "other"}

\* the groups of operations; a run exercises one of them:
\*   "reviews"  submit, edit, remove and moderation of reviews
\*   "stores"   Store.create and store.update (names and slugs)
\*   "engage"   votes, replies and edits on a review that exists
\*   "faults"   the review handlers with a storage that may fail during
\*              the recompute
\*   "catalog"  createStore and updateStore next to the removal of a review
Suites == {"reviews", "stores", "engage", "faults", "catalog"}

\* the rating of the review an "engage" run starts with
SeedInput == 3

\* request inputs the model draws from
RatingInputs == {3, 5}

\* store names: an upper-case letter, a stripped character and a space; two
\* spaces in a row; a name whose slug is the first probe of another; a
\* leading space; nothing but stripped characters; one character
NameInputs ==
    {<<"J", "'", "s", " ", "C">>,
     <<"J", "S", " ", " ", "C">>,
     <<"j", "s", " ", "c", " ", "1">>,
     <<" ", "j">>,
     <<"!", "!">>,
     <<"j">>}

\* title, comment and images of an edit's body
NoBody == [title |-> UNDEFINED, comment |-> UNDEFINED, images |-> UNDEFINED]

\* the edits of an "engage" run, as <<rating, body>> (rating 0: none
\* given): nothing; a title; an empty title; a rating, a comment and images
EditInputs ==
    {<<0, NoBody>>,
     <<0, [NoBody EXCEPT !.title = "new title"]>>,
     <<0, [NoBody EXCEPT !.title = ""]>>,
     <<5, [NoBody EXCEPT !.comment = "new comment", !.images = "[http://a]"]>>}

\* reply texts
ReplyInputs == {"", "thanks"}

\* no slug given
NoSlug == <<NULL>>

\* a field the body of a store request does not hold
Absent == -1

\* the body of a createStore / updateStore request: name ("" when none is
\* given), isVerified, and the rating fields a client may try to send
NoStoreBody == [name |-> "", isVerified |-> UNDEFINED,
                averageRating |-> Absent, totalReviews |-> Absent]

\* bodies: a name already in use; another name with rating fields; rating
\* fields and isVerified; nothing
StoreBodies ==
    {[NoStoreBody EXCEPT !.name = "shop"],
     [NoStoreBody EXCEPT !.name = "Deli", !.averageRating = 500, !.totalReviews = 7],
     [NoStoreBody EXCEPT !.isVerified = "true", !.averageRating = 500, !.totalReviews = 7],
     NoStoreBody}

\* slugs a request may give explicitly
SlugInputs == {NoSlug, <<"j", "s", "-", "c">>}
ReasonInputs == {"spam", NULL, "", "bogus"}
Roles == {"customer", "admin"}

\* ------------------------------------------------------------- variables
VARIABLES
    ratings,   \* table `ratings`: id -> row, for the ids that exist
    stores,    \* table `stores`: id -> [average_rating, total_reviews]
    nextId,    \* next primary key of `ratings`
    procs,     \* the requests in flight: position and local variables
    nOps,      \* number of requests started so far
    serial,    \* TRUE: the run issues its requests one at a time
    stack,     \* which stack serves the run: "model" or "controller"
    suite,     \* which group of operations the run exercises
    storeRows, \* table `stores`, columns name and slug: id -> row
    storeDocs, \* the store documents the controllers work on, without
               \* their two rating fields (held by `stores`): id -> document
    lastRec,   \* history: what the last recompute of a store wrote
    e2e        \* history: progress of the end-to-end scenario

vars == <<ratings, stores, nextId, procs, nOps, serial, stack, suite, storeRows, storeDocs, lastRec, e2e>>

\* ---------------------------------------------------------------- helpers
RECURSIVE SumRatings(_, _)
SumRatings(R, ids) ==
    IF ids = {} THEN 0
    ELSE LET i == CHOOSE x \in ids : TRUE
         IN R[i].rating + SumRatings(R, ids \ {i})

\* Number.prototype.toFixed(2) of sum/n, in hundredths.  For n < 8 the
\* quotient is never a tie at the third decimal, so the result is the
\* nearest hundredth.
ToFixed2(sum, n) == (200 * sum + n) \div (2 * n)

\* parseFloat((sum/n).toFixed(1)), in hundredths.  Ties (n = 4) are exactly
\* representable quarters and toFixed picks the larger candidate.
ToFixed1(sum, n) == ((20 * sum + n) \div (2 * n)) * 10

\* store.getRatings(): the hasMany association Store -> Rating on store_id,
\* no scope and no where clause.
GetRatings(R, s) == {i \in DOMAIN R : R[i].store_id = s}

\* Review.find({ store: storeId })
ReviewFind(R, s) == {i \in DOMAIN R : R[i].store_id = s}

\* Review.findOne({ user, store })
ReviewFindOne(R, u, s) == {i \in DOMAIN R : R[i].user_id = u /\ R[i].store_id = s}

\* the table without its unique index
UniqueUserStore_NoIndex(R, u, s) == TRUE

\* unique index unique_user_store_rating on (user_id, store_id)
UniqueUserStore(R, u, s) == \A i \in DOMAIN R : ~(R[i].user_id = u /\ R[i].store_id = s)

\* reply: null
NoReply == [text |-> NULL, date |-> 0, author_id |-> 0]

\* column defaults of a new row (a row created without title, comment or
\* images)
NewRating(u, s, r) ==
    [user_id |-> u, store_id |-> s, rating |-> r,
     is_flagged |-> FALSE, flag_reason |-> NULL, is_approved |-> TRUE,
     title |-> NULL, comment |-> NULL, images |-> "[]",
     helpful_votes |-> 0, reply |-> NoReply, is_verified_purchase |-> FALSE]

\* a review submitted earlier with a title, a comment and no image
SeedRating(u, s, r) ==
    [NewRating(u, s, r) EXCEPT !.title = "old title", !.comment = "old comment"]

\* a recompute that adds the reviews it read to the count it was loaded with
RatingStats_Accumulating(this, R, ids) ==
    IF Cardinality(ids) > 0
    THEN [average_rating |-> ToFixed2(SumRatings(R, ids), Cardinality(ids)),
          total_reviews |-> this.total_reviews + Cardinality(ids)]
    ELSE [average_rating |-> 0, total_reviews |-> 0]

\* body of Store.prototype.updateRatingStats between getRatings and save;
\* `this` is the Store instance the method was called on
RatingStats(this, R, ids) ==
    IF Cardinality(ids) > 0
    THEN [average_rating |-> ToFixed2(SumRatings(R, ids), Cardinality(ids)),
          total_reviews |-> Cardinality(ids)]
    ELSE [average_rating |-> 0, total_reviews |-> 0]

\* body of updateStoreRating between Review.find and findByIdAndUpdate
StoreRating(R, ids) ==
    IF Cardinality(ids) = 0
    THEN [average_rating |-> 0, total_reviews |-> 0]
    ELSE [average_rating |-> ToFixed1(SumRatings(R, ids), Cardinality(ids)),
          total_reviews |-> Cardinality(ids)]

\* this.save() of a Store instance: the UPDATE carries only the attributes
\* whose value differs from the one the instance was loaded with.  The
\* number 0.00 never equals the loaded DECIMAL string, so the else branch
\* always sends average_rating.
SaveStoreRow(row, snap, calc) ==
    [average_rating |->
        IF calc.total_reviews = 0 \/ calc.average_rating # snap.average_rating
        THEN calc.average_rating ELSE row.average_rating,
     total_reviews |->
        IF calc.total_reviews # snap.total_reviews
        THEN calc.total_reviews ELSE row.total_reviews]

NoStats == [average_rating |-> 0, total_reviews |-> 0]

\* ------------------------------------------------------------------ slugs
\* A string is the sequence of its characters.
LowerCase == <<"a", "b", "c", "d", "e", "f", "g", "h", "i", "j", "k", "l", "m",
               "n", "o", "p", "q", "r", "s", "t", "u", "v", "w", "x", "y", "z">>
UpperCase == <<"A", "B", "C", "D", "E", "F", "G", "H", "I", "J", "K", "L", "M",
               "N", "O", "P", "Q", "R", "S", "T", "U", "V", "W", "X", "Y", "Z">>
DigitChars == <<"0", "1", "2", "3", "4", "5", "6", "7", "8", "9">>

Range(f) == {f[i] : i \in DOMAIN f}

\* String.prototype.toLowerCase
ToLowerCase(str) ==
    [i \in DOMAIN str |->
        IF str[i] \in Range(UpperCase)
        THEN LowerCase[CHOOSE k \in DOMAIN UpperCase : UpperCase[k] = str[i]]
        ELSE str[i]]

\* .replace(/[^a-z0-9 -]/g, '')
StripOthers(str) ==
    SelectSeq(str, LAMBDA c : c \in Range(LowerCase) \cup Range(DigitChars) \cup {" ", "-"})

\* /\s/ matches the white-space characters; after the first replace only
\* the space is left of them
IsSpace(c) == c \in {" ", "\t", "\n"}

\* replace every maximal run of characters of `run` by one `by`
RECURSIVE ReplaceRuns(_, _, _)
ReplaceRuns(str, run, by) ==
    IF str = <<>> THEN <<>>
    ELSE IF Head(str) \in run
         THEN IF Len(str) > 1 /\ str[2] \in run
              THEN ReplaceRuns(Tail(str), run, by)
              ELSE <<by>> \o ReplaceRuns(Tail(str), run, by)
         ELSE <<Head(str)>> \o ReplaceRuns(Tail(str), run, by)

\* String.prototype.trim: white space off both ends
RECURSIVE TrimStart(_)
TrimStart(str) ==
    IF str # <<>> /\ IsSpace(Head(str)) THEN TrimStart(Tail(str)) ELSE str

RECURSIVE TrimEnd(_)
TrimEnd(str) ==
    IF str # <<>> /\ IsSpace(str[Len(str)])
    THEN TrimEnd(SubSeq(str, 1, Len(str) - 1)) ELSE str

Trim(str) == TrimEnd(TrimStart(str))

\* the chain that computes baseSlug in Store.generateSlug
BaseSlug(name) ==
    Trim(ReplaceRuns(ReplaceRuns(StripOthers(ToLowerCase(name)),
                                 {" ", "\t", "\n"}, "-"),
                     {"-"}, "-"))

\* String(counter): the decimal digits
RECURSIVE Decimal(_)
Decimal(k) ==
    IF k < 10 THEN <<DigitChars[k + 1]>>
    ELSE Decimal(k \div 10) \o <<DigitChars[(k % 10) + 1]>>

\* `${baseSlug}-${counter}`
Candidate(base, counter) == base \o <<"-">> \o Decimal(counter)

\* validate.is: /^[a-z0-9-]+$/
IsSlug(str) ==
    /\ str # <<>>
    /\ \A i \in DOMAIN str : str[i] \in Range(LowerCase) \cup Range(DigitChars) \cup {"-"}

\* the instance a request has not loaded yet
NoRow == NewRating(0, 0, 0)

\* no store document
NoStoreDoc == [name |-> "", owner |-> 0, is_verified |-> "false"]

\* the store an "engage" or "catalog" run starts with
SeedStoreDoc == [name |-> "Shop", owner |-> 1, is_verified |-> "false"]

\* no row of `stores`
NoStoreRow == [name |-> <<>>, slug |-> NoSlug]

\* a request: user and role are the caller's (req.user), row0 the review
\* and srow0 / sdoc0 the store as the request loaded it, arg the slug and
\* sbody the body as given; failed: the storage failed under the request
IdleProc ==
    [op |-> "none", pc |-> "idle", layer |-> "none", user |-> 0, store |-> 0,
     id |-> 0, rating |-> 0, reason |-> "", snap |-> NoStats, calc |-> NoStats,
     dirty |-> FALSE, approved0 |-> FALSE, res |-> "none",
     role |-> "none", row0 |-> NoRow,
     name |-> <<>>, slug |-> <<>>, base |-> <<>>, counter |-> 0, gen |-> FALSE,
     ret |-> 0, at |-> 0, text |-> "", body |-> NoBody,
     srow0 |-> NoStoreRow, arg |-> NoSlug,
     sbody |-> NoStoreBody, sdoc0 |-> NoStoreDoc, failed |-> FALSE]

NoRec == [by |-> "none", average_rating |-> 0, total_reviews |-> 0, n |-> 0]

\* the record of a recompute by `layer` that left `row` in the store; n
\* counts (up to 2) the recomputes in a row, with no change of the reviews
\* and no other write of the store between them
NextRec(prev, layer, row) ==
    [by |-> layer, average_rating |-> row.average_rating,
     total_reviews |-> row.total_reviews,
     n |-> IF prev.by = layer THEN 2 ELSE 1]

\* a change of store s's reviews: recomputes that already read the review
\* set are now stale, and the last recompute is no longer the latest word
MarkDirty(P, s) ==
    [q \in Procs |->
        IF P[q].store = s /\ P[q].pc \in {"saveStore", "usrUpdate"}
        THEN [P[q] EXCEPT !.dirty = TRUE] ELSE P[q]]

Quiet == \A q \in Procs : procs[q].pc \in {"idle", "done"}

\* a finished request returns to its caller before any request goes on
NoneDone == \A q \in Procs : procs[q].pc # "done"

\* ---------------------------------------------------- scenario bookkeeping
E2EOff == [stage |-> -1, run |-> 0, store |-> 0, idA |-> 0, idB |-> 0]

\* a request starts: the scenario goes on only if it is the expected step
E2EStart(p, op, u, s, r, id, reason) ==
    IF e2e.stage < 0 \/ e2e.run # 0 THEN E2EOff
    ELSE IF e2e.stage = 0 /\ op = "create" /\ r = 5
         THEN [e2e EXCEPT !.run = p, !.store = s, !.idA = id]
    ELSE IF e2e.stage = 1 /\ op = "create" /\ r = 3 /\ s = e2e.store
            /\ e2e.idA \in DOMAIN ratings /\ u # ratings[e2e.idA].user_id
         THEN [e2e EXCEPT !.run = p, !.idB = id]
    ELSE IF e2e.stage = 2 /\ op = "flag" /\ id = e2e.idB /\ reason \in FlagReasons
         THEN [e2e EXCEPT !.run = p]
    ELSE IF e2e.stage = 3 /\ op = "destroy" /\ id = e2e.idA
         THEN [e2e EXCEPT !.run = p]
    ELSE E2EOff

\* the request of the current step finished
E2EFinish(p, ok) ==
    IF e2e.run = p
    THEN IF ok THEN [e2e EXCEPT !.stage = @ + 1, !.run = 0] ELSE E2EOff
    ELSE e2e

\* the least element of a set of identifiers, as a set
Lowest(S) == {x \in S : \A y \in S : x <= y}

\* review.store.owner of the populated store: the stores of a run belong
\* to user 1
StoreOwner(s) == 1

\* ------------------------------------------------------------------- Init
\* Empty tables; an "engage" or "catalog" run starts after one review of
\* store 1 was submitted and its recompute completed.  A "faults" run
\* issues its requests one at a time.
Init ==
    /\ serial \in BOOLEAN
    /\ stack \in {"model", "controller"}
    /\ suite \in Suites
    /\ suite = "stores" => stack = "model"
    /\ suite \in {"faults", "catalog"} => stack = "controller"
    /\ suite = "faults" => serial
    /\ IF suite \in {"engage", "catalog"}
       THEN /\ \E u \in {StoreOwner(1)} \cup Lowest(Users \ {StoreOwner(1)}) :
                   ratings = (1 :> SeedRating(u, 1, SeedInput))
            /\ stores = [s \in StoreIds |->
                   IF s = 1 THEN StoreRating(ratings, {1}) ELSE NoStats]
            /\ nextId = 2
            /\ e2e = E2EOff
       ELSE /\ ratings = <<>>
            /\ stores = [s \in StoreIds |-> NoStats]
            /\ nextId = 1
            /\ e2e = [stage |-> 0, run |-> 0, store |-> 0, idA |-> 0, idB |-> 0]
    /\ procs = [p \in Procs |-> IdleProc]
    /\ nOps = 0
    /\ storeRows = <<>>
    /\ storeDocs = IF suite = "catalog" THEN (1 :> SeedStoreDoc) ELSE <<>>
    /\ lastRec = [s \in StoreIds |-> NoRec]

\* a request may start in the lowest free slot; a serial run has one request
\* at a time and may issue MaxSerialOps of them, a concurrent run and a
\* run with storage faults MaxOps
CanStart(p) ==
    /\ procs[p].pc = "idle"
    /\ NoneDone
    /\ \A q \in Procs : q < p => procs[q].pc # "idle"
    /\ IF serial
       THEN p = 1 /\ nOps < (IF suite = "faults" THEN MaxOps ELSE MaxSerialOps)
       ELSE nOps < MaxOps

\* a request on reviews of the given stack may start
CanStartIn(p, layer) ==
    stack = layer /\ suite \in {"reviews", "faults"} /\ CanStart(p)

\* a vote, reply or edit request of the given stack may start
CanStartEngage(p, layer) == stack = layer /\ suite = "engage" /\ CanStart(p)

\* an edit may start: edits belong to several groups
CanStartEdit(p) ==
    /\ stack = "controller"
    /\ suite \in {"reviews", "engage", "faults"}
    /\ CanStart(p)

\* a removal may start
CanStartRemove(p) ==
    /\ stack = "controller"
    /\ suite \in {"reviews", "engage", "faults", "catalog"}
    /\ CanStart(p)

\* a request on the store documents may start
CanStartCatalog(p) == stack = "controller" /\ suite = "catalog" /\ CanStart(p)

\* a request on the stores table may start
CanStartStore(p) == stack = "model" /\ suite = "stores" /\ CanStart(p)

\* Users and stores are interchangeable identifiers, and so are the ids of
\* rows that do not exist: a request names one the state already knows, or
\* the lowest one it does not.
KnownUsers ==
    ({ratings[i].user_id : i \in DOMAIN ratings} \cup {procs[p].user : p \in Procs}) \ {0}

KnownStores ==
    {s \in StoreIds :
        \/ stores[s] # NoStats \/ lastRec[s] # NoRec \/ e2e.store = s
        \/ \E i \in DOMAIN ratings : ratings[i].store_id = s
        \/ \E p \in Procs : procs[p].store = s}

UserChoices == KnownUsers \cup Lowest(Users \ KnownUsers)

StoreChoices == KnownStores \cup Lowest(StoreIds \ KnownStores)

IdChoices == DOMAIN ratings \cup Lowest(RatingIds \ (1..(nextId - 1)))

\* the runs that start from a stored review
Seeded == suite \in {"engage", "catalog"}

\* A request of a seeded run for a review that does not exist is answered
\* 404 whatever else it carries: one choice of the rest is enough.
Missing(id) == Seeded /\ id \notin DOMAIN ratings

\* the actors of a request: in a seeded run the users differ by what
\* they own, so the owner of the review's store is a choice next to the
\* users seen so far and one user not seen yet
ActorChoices(id) ==
    IF ~Seeded THEN UserChoices
    ELSE IF Missing(id) THEN Lowest(Users)
    ELSE LET known == KnownUsers \cup {StoreOwner(ratings[id].store_id)}
         IN known \cup Lowest(Users \ known)

\* the edits of a request by actor u, as <<rating, body>>: title, comment
\* and images are exercised by the "engage" runs, where the author tries
\* every edit and another user, who is refused before the body is read,
\* one
EditChoices(id, u) ==
    IF suite # "engage" THEN {<<r, NoBody>> : r \in {0} \cup RatingInputs}
    ELSE IF Missing(id) THEN {<<0, NoBody>>}
    ELSE IF u = ratings[id].user_id THEN EditInputs
    ELSE {<<0, [NoBody EXCEPT !.title = "new title"]>>}

\* the roles of the actor of a removal: in a seeded run the author,
\* who may remove the review in any role, comes as a customer
DeleteRoles(id, u) ==
    IF ~Seeded THEN Roles
    ELSE IF Missing(id) THEN {"customer"}
    ELSE IF u = ratings[id].user_id THEN {"customer"}
    ELSE Roles

\* the roles of the actor of a reply: the owner of the store, who may
\* reply in any role, comes as a customer
ReplyRoles(id, u) ==
    IF Missing(id) THEN {"customer"}
    ELSE IF u = StoreOwner(ratings[id].store_id) THEN {"customer"}
    ELSE Roles

\* the actors of a store request: the users differ by what they own, so
\* the owner of the first store and one other user are the choices
StoreActors == {StoreOwner(1)} \cup Lowest(Users \ {StoreOwner(1)})

\* the bodies of a createStore request: those with a name; a customer,
\* refused before the body is read, tries one
CreateBodies(role) ==
    IF role = "customer" THEN {[NoStoreBody EXCEPT !.name = "shop"]}
    ELSE {b \in StoreBodies : b.name # ""}

\* the ids of an updateStore request: a document that exists, or the
\* lowest that does not
StoreIdChoices == DOMAIN storeDocs \cup Lowest(StoreIds \ DOMAIN storeDocs)

\* the roles of the actor of an updateStore request: the owner, who may
\* update in any role, comes as a store owner
UpdateRoles(id, u) ==
    IF id \notin DOMAIN storeDocs THEN {"customer"}
    ELSE IF u = storeDocs[id].owner THEN {"store_owner"}
    ELSE {"customer", "admin"}

\* the bodies of an updateStore request: an actor who is refused before
\* the body is read tries one, an admin who is not the owner those that
\* set isVerified, the owner all
UpdateBodies(id, u, role) ==
    IF id \notin DOMAIN storeDocs THEN {NoStoreBody}
    ELSE IF u = storeDocs[id].owner THEN StoreBodies
    ELSE IF role = "admin" THEN {b \in StoreBodies : b.isVerified # UNDEFINED}
    ELSE {[NoStoreBody EXCEPT !.name = "shop"]}

\* the texts of a reply by actor u: the owner tries every text, the others
\* one that is not empty
TextChoices(id, u) ==
    IF Missing(id) THEN {""}
    ELSE IF u = StoreOwner(ratings[id].store_id) THEN ReplyInputs
    ELSE {"thanks"}

\* ------------------------------------------------ Rating model (Sequelize)
\* a lookup that finds the other store
GetStore_Other(rating) == 3 - rating.store_id

\* rating.getStore(): the store the rating's store_id names
GetStore(rating) == rating.store_id

\* Rating.create({user_id, store_id, rating}): the INSERT, then afterCreate
RatingCreate(p, u, s, r) ==
    /\ CanStartIn(p, "model")
    /\ nOps' = nOps + 1
    /\ IF UniqueUserStore(ratings, u, s)
       THEN /\ ratings' = ratings @@ (nextId :> NewRating(u, s, r))
            /\ nextId' = nextId + 1
            /\ procs' = MarkDirty(
                   [procs EXCEPT ![p] = [IdleProc EXCEPT
                       !.op = "create", !.layer = "model", !.pc = "getStore",
                       !.user = u, !.store = GetStore(NewRating(u, s, r)),
                       !.id = nextId, !.rating = r]], s)
            /\ lastRec' = [lastRec EXCEPT ![s] = NoRec]
            /\ e2e' = E2EStart(p, "create", u, s, r, nextId, "")
       ELSE /\ procs' = [procs EXCEPT ![p] = [IdleProc EXCEPT
                       !.op = "create", !.layer = "model", !.pc = "done",
                       !.user = u, !.store = s, !.rating = r,
                       !.res = "UniqueConstraintError"]]
            /\ e2e' = E2EOff
            /\ UNCHANGED <<ratings, nextId, lastRec>>
    /\ UNCHANGED <<stores, serial, stack, suite, storeRows, storeDocs>>

\* an unflag that forgets to clear the reason
ApplyMethod_UnflagKeepsReason(m, this, reason) ==
    IF m = "flag"
    THEN [this EXCEPT !.is_flagged = TRUE, !.flag_reason = reason, !.is_approved = FALSE]
    ELSE IF m = "unflag"
    THEN [this EXCEPT !.is_flagged = FALSE, !.is_approved = TRUE]
    ELSE IF m = "approve"
    THEN [this EXCEPT !.is_approved = TRUE]
    ELSE [this EXCEPT !.is_approved = FALSE]

\* the assignments of flag / unflag / approve / reject on the instance
ApplyMethod(m, this, reason) ==
    IF m = "flag"
    THEN [this EXCEPT !.is_flagged = TRUE, !.flag_reason = reason, !.is_approved = FALSE]
    ELSE IF m = "unflag"
    THEN [this EXCEPT !.is_flagged = FALSE, !.flag_reason = NULL, !.is_approved = TRUE]
    ELSE IF m = "approve"
    THEN [this EXCEPT !.is_approved = TRUE]
    ELSE [this EXCEPT !.is_approved = FALSE]

RatingFields ==
    {"user_id", "store_id", "rating", "is_flagged", "flag_reason", "is_approved",
     "title", "comment", "images", "helpful_votes", "reply", "is_verified_purchase"}

\* instance.changed(): the attributes whose value differs from the loaded one
Changed(old, new) == {f \in RatingFields : old[f] # new[f]}

\* validate.isValidFlagReason, run by save() for flag_reason only when
\* flag_reason is among the attributes being saved
IsValidFlagReason(this, changed) ==
    ~("flag_reason" \in changed /\ this.is_flagged /\ this.flag_reason \in {NULL, ""})

\* DataTypes.ENUM('spam', ...), allowNull: true: what the column accepts
FlagReasonColumn(v) == v \in FlagReasons \cup {NULL}

\* a hook that looks at the rating only
AfterUpdateRecomputes_RatingOnly(changed) == "rating" \in changed

\* condition of the afterUpdate hook
AfterUpdateRecomputes(changed) == "rating" \in changed \/ "is_approved" \in changed

\* rating.flag(reason) / unflag() / approve() / reject() on a freshly loaded
\* instance: the assignments and this.save() (validation, UPDATE), then
\* afterUpdate.  The methods take no actor: the caller's role is recorded
\* on the request and nothing reads it.
RatingMethod(p, id, m, reason, role) ==
    /\ CanStartIn(p, "model")
    /\ id \in DOMAIN ratings
    /\ m = "flag" \/ reason = ""
    /\ nOps' = nOps + 1
    /\ LET old == ratings[id]
           new == ApplyMethod(m, old, reason)
           ch == Changed(old, new)
           s == old.store_id
           req == [IdleProc EXCEPT !.op = m, !.layer = "model",
                       !.store = GetStore(old),
                       !.user = old.user_id, !.id = id, !.reason = reason,
                       !.approved0 = old.is_approved,
                       !.role = role, !.row0 = old]
       IN IF ~IsValidFlagReason(new, ch)
          THEN /\ procs' = [procs EXCEPT ![p] = [req EXCEPT !.pc = "done", !.res = "ValidationError"]]
               /\ e2e' = E2EOff
               /\ UNCHANGED <<ratings, lastRec>>
          ELSE IF "flag_reason" \in ch /\ ~FlagReasonColumn(new.flag_reason)
          THEN /\ procs' = [procs EXCEPT ![p] = [req EXCEPT !.pc = "done", !.res = "DatabaseError"]]
               /\ e2e' = E2EOff
               /\ UNCHANGED <<ratings, lastRec>>
          ELSE /\ ratings' = [ratings EXCEPT ![id] = new]
               /\ IF AfterUpdateRecomputes(ch)
                  THEN /\ procs' = MarkDirty([procs EXCEPT ![p] = [req EXCEPT !.pc = "getStore"]], s)
                       /\ lastRec' = [lastRec EXCEPT ![s] = NoRec]
                       /\ e2e' = E2EStart(p, m, old.user_id, s, 0, id, reason)
                  ELSE /\ procs' = [procs EXCEPT ![p] = [req EXCEPT !.pc = "done", !.res = "ok"]]
                       /\ e2e' = E2EOff
                       /\ UNCHANGED lastRec
    /\ UNCHANGED <<stores, nextId, serial, stack, suite, storeRows, storeDocs>>

\* rating.destroy(): the DELETE, then afterDestroy
RatingDestroy(p, id) ==
    /\ CanStartIn(p, "model")
    /\ id \in DOMAIN ratings
    /\ nOps' = nOps + 1
    /\ LET s == ratings[id].store_id
       IN /\ ratings' = [i \in DOMAIN ratings \ {id} |-> ratings[i]]
          /\ procs' = MarkDirty(
                 [procs EXCEPT ![p] = [IdleProc EXCEPT
                     !.op = "destroy", !.layer = "model", !.pc = "getStore",
                     !.user = ratings[id].user_id,
                     !.store = GetStore(ratings[id]), !.id = id]], s)
          /\ lastRec' = [lastRec EXCEPT ![s] = NoRec]
          /\ e2e' = E2EStart(p, "destroy", 0, s, 0, id, "")
    /\ UNCHANGED <<stores, nextId, serial, stack, suite, storeRows, storeDocs>>

\* store.updateRatingStats() called directly on a store
Recompute(p, s) ==
    /\ CanStartIn(p, "model")
    /\ nOps' = nOps + 1
    /\ procs' = [procs EXCEPT ![p] = [IdleProc EXCEPT
           !.op = "recompute", !.layer = "model", !.pc = "getStore", !.store = s]]
    /\ e2e' = E2EOff
    /\ UNCHANGED <<ratings, stores, nextId, serial, stack, suite, storeRows, storeDocs, lastRec>>

\* hooks: const store = await rating.getStore()
HookGetStore(p) ==
    /\ procs[p].pc = "getStore"
    /\ NoneDone
    /\ procs' = [procs EXCEPT ![p].snap = stores[procs[p].store], ![p].pc = "getRatings"]
    /\ UNCHANGED <<ratings, stores, nextId, nOps, serial, stack, suite, storeRows, storeDocs, lastRec, e2e>>

\* updateRatingStats: const ratings = await this.getRatings(), and the
\* computation up to the next await
UpdateRatingStatsRead(p) ==
    /\ procs[p].pc = "getRatings"
    /\ NoneDone
    /\ procs' = [procs EXCEPT
           ![p].calc = RatingStats(procs[p].snap, ratings, GetRatings(ratings, procs[p].store)),
           ![p].dirty = FALSE,
           ![p].pc = "saveStore"]
    /\ UNCHANGED <<ratings, stores, nextId, nOps, serial, stack, suite, storeRows, storeDocs, lastRec, e2e>>

\* updateRatingStats: await this.save()
UpdateRatingStatsSave(p) ==
    /\ procs[p].pc = "saveStore"
    /\ NoneDone
    /\ LET s == procs[p].store
           row == SaveStoreRow(stores[s], procs[p].snap, procs[p].calc)
       IN /\ stores' = [stores EXCEPT ![s] = row]
          /\ lastRec' = [lastRec EXCEPT ![s] =
                 IF ~procs[p].dirty /\ row = procs[p].calc
                 THEN NextRec(lastRec[s], "model", row)
                 ELSE NoRec]
    /\ procs' = [procs EXCEPT ![p].pc = "done", ![p].res = "ok"]
    /\ e2e' = E2EFinish(p, TRUE)
    /\ UNCHANGED <<ratings, nextId, nOps, serial, stack, suite, storeRows, storeDocs>>

\* the request returns to its caller
Return(p) ==
    /\ procs[p].pc = "done"
    /\ procs' = [procs EXCEPT ![p] = IdleProc]
    /\ UNCHANGED <<ratings, stores, nextId, nOps, serial, stack, suite, storeRows, storeDocs, lastRec, e2e>>

\* ------------------------------------------------------------- votes
\* a check that lets every actor vote
IsOwnReview_Never(review, actor) == FALSE

\* review.user.toString() === req.user._id.toString()
IsOwnReview(review, actor) == review.user_id = actor

\* voteReview up to the save: Review.findById, the own-review check,
\* review.helpfulVotes += 1 on the loaded document
VoteReview(p, actor, id) ==
    /\ CanStartEngage(p, "controller")
    /\ nOps' = nOps + 1
    /\ LET req == [IdleProc EXCEPT !.op = "voteReview", !.layer = "controller",
                       !.user = actor, !.id = id]
       IN IF id \notin DOMAIN ratings
          THEN procs' = [procs EXCEPT ![p] = [req EXCEPT !.pc = "done", !.res = "404 Review not found"]]
          ELSE IF IsOwnReview(ratings[id], actor)
          THEN procs' = [procs EXCEPT ![p] = [req EXCEPT !.pc = "done",
                            !.res = "400 You cannot vote on your own review",
                            !.store = ratings[id].store_id, !.row0 = ratings[id]]]
          ELSE procs' = [procs EXCEPT ![p] = [req EXCEPT !.pc = "voteSave",
                            !.store = ratings[id].store_id, !.row0 = ratings[id],
                            !.ret = ratings[id].helpful_votes + 1]]
    /\ UNCHANGED <<ratings, stores, nextId, serial, stack, suite, storeRows, storeDocs, lastRec, e2e>>

\* voteReview: await review.save() writes the modified path helpfulVotes
\* with the value the document holds; a document that is gone makes save()
\* reject.  Then the handler answers with review.helpfulVotes.
VoteReviewSave(p) ==
    /\ procs[p].pc = "voteSave"
    /\ NoneDone
    /\ IF procs[p].id \in DOMAIN ratings
       THEN /\ ratings' = [ratings EXCEPT ![procs[p].id].helpful_votes = procs[p].ret]
            /\ procs' = [procs EXCEPT ![p].pc = "done", ![p].res = "200 Vote recorded"]
       ELSE /\ procs' = [procs EXCEPT ![p].pc = "done", ![p].res = "500 Server Error"]
            /\ UNCHANGED ratings
    /\ UNCHANGED <<stores, nextId, nOps, serial, stack, suite, storeRows, storeDocs, lastRec, e2e>>

\* rating.addHelpfulVote() on a loaded instance, up to the save:
\* this.helpful_votes += 1
AddHelpfulVote(p, id) ==
    /\ CanStartEngage(p, "model")
    /\ id \in DOMAIN ratings
    /\ nOps' = nOps + 1
    /\ procs' = [procs EXCEPT ![p] = [IdleProc EXCEPT
           !.op = "addHelpfulVote", !.layer = "model", !.pc = "helpfulSave", !.id = id,
           !.store = ratings[id].store_id, !.row0 = ratings[id],
           !.ret = ratings[id].helpful_votes + 1]]
    /\ UNCHANGED <<ratings, stores, nextId, serial, stack, suite, storeRows, storeDocs, lastRec, e2e>>

\* addHelpfulVote: await this.save() sends UPDATE ... SET helpful_votes =
\* the instance's value; afterUpdate finds neither rating nor is_approved
\* changed; return this.helpful_votes
AddHelpfulVoteSave(p) ==
    /\ procs[p].pc = "helpfulSave"
    /\ NoneDone
    /\ ratings' = IF procs[p].id \in DOMAIN ratings
                  THEN [ratings EXCEPT ![procs[p].id].helpful_votes = procs[p].ret]
                  ELSE ratings
    /\ procs' = [procs EXCEPT ![p].pc = "done", ![p].res = "ok"]
    /\ UNCHANGED <<stores, nextId, nOps, serial, stack, suite, storeRows, storeDocs, lastRec, e2e>>

\* ------------------------------------------------------------ replies
\* a check that lets every actor reply
MayReply_Anyone(s, actor, role) == TRUE

\* the negation of addReply's 403 condition
MayReply(s, actor, role) == StoreOwner(s) = actor \/ role = "admin"

\* new Date() of a request: the number of the request
Now == nOps + 1

\* addReply (controller) up to the save: Review.findById().populate, the
\* owner-or-admin check, the text check, review.reply = { text, date }
AddReply(p, actor, role, id, text) ==
    /\ CanStartEngage(p, "controller")
    /\ nOps' = nOps + 1
    /\ LET req == [IdleProc EXCEPT !.op = "addReply", !.layer = "controller",
                       !.user = actor, !.role = role, !.id = id, !.text = text,
                       !.at = Now]
           found == [req EXCEPT !.store = ratings[id].store_id, !.row0 = ratings[id],
                                !.snap = stores[ratings[id].store_id]]
       IN IF id \notin DOMAIN ratings
          THEN procs' = [procs EXCEPT ![p] = [req EXCEPT !.pc = "done", !.res = "404 Review not found"]]
          ELSE IF ~MayReply(ratings[id].store_id, actor, role)
          THEN procs' = [procs EXCEPT ![p] = [found EXCEPT !.pc = "done", !.res = "403 Access denied"]]
          ELSE IF text \in {UNDEFINED, ""}
          THEN procs' = [procs EXCEPT ![p] = [found EXCEPT !.pc = "done", !.res = "400 Reply text is required"]]
          ELSE procs' = [procs EXCEPT ![p] = [found EXCEPT !.pc = "replySave"]]
    /\ UNCHANGED <<ratings, stores, nextId, serial, stack, suite, storeRows, storeDocs, lastRec, e2e>>

\* addReply (controller): await review.save() writes the modified path
\* reply, which holds text and date; a document that is gone makes save()
\* reject
AddReplySave(p) ==
    /\ procs[p].pc = "replySave"
    /\ NoneDone
    /\ IF procs[p].id \in DOMAIN ratings
       THEN /\ ratings' = [ratings EXCEPT ![procs[p].id].reply =
                   [text |-> procs[p].text, date |-> procs[p].at, author_id |-> 0]]
            /\ procs' = [procs EXCEPT ![p].pc = "done", ![p].res = "200 Reply added"]
       ELSE /\ procs' = [procs EXCEPT ![p].pc = "done", ![p].res = "500 Server Error"]
            /\ UNCHANGED ratings
    /\ UNCHANGED <<stores, nextId, nOps, serial, stack, suite, storeRows, storeDocs, lastRec, e2e>>

\* rating.addReply(replyText, authorId) on a loaded instance, up to the
\* save: this.reply = { text, date, author_id }
RatingAddReply(p, id, text, authorId) ==
    /\ CanStartEngage(p, "model")
    /\ id \in DOMAIN ratings
    /\ nOps' = nOps + 1
    /\ procs' = [procs EXCEPT ![p] = [IdleProc EXCEPT
           !.op = "ratingAddReply", !.layer = "model", !.pc = "ratingReplySave",
           !.id = id, !.user = authorId, !.text = text, !.at = Now,
           !.store = ratings[id].store_id, !.row0 = ratings[id]]]
    /\ UNCHANGED <<ratings, stores, nextId, serial, stack, suite, storeRows, storeDocs, lastRec, e2e>>

\* validate.isValidReply of an object: text must be a non-empty string
IsValidReply(text) == text \notin {UNDEFINED, NULL, ""}

\* rating.addReply: await this.save(): validation of reply, the UPDATE of
\* reply, afterUpdate (neither rating nor is_approved changed)
RatingAddReplySave(p) ==
    /\ procs[p].pc = "ratingReplySave"
    /\ NoneDone
    /\ IF ~IsValidReply(procs[p].text)
       THEN /\ procs' = [procs EXCEPT ![p].pc = "done", ![p].res = "ValidationError"]
            /\ UNCHANGED ratings
       ELSE /\ ratings' = IF procs[p].id \in DOMAIN ratings
                          THEN [ratings EXCEPT ![procs[p].id].reply =
                                   [text |-> procs[p].text, date |-> procs[p].at,
                                    author_id |-> procs[p].user]]
                          ELSE ratings
            /\ procs' = [procs EXCEPT ![p].pc = "done", ![p].res = "ok"]
    /\ UNCHANGED <<stores, nextId, nOps, serial, stack, suite, storeRows, storeDocs, lastRec, e2e>>

\* --------------------------------------------- Store model (Sequelize)
NameMin == 2
NameMax == 200

\* validate of name: notEmpty and len [2, 200]
ValidName(name) ==
    /\ \E i \in DOMAIN name : ~IsSpace(name[i])
    /\ Len(name) >= NameMin /\ Len(name) <= NameMax

Slugs(rows) == {rows[i].slug : i \in DOMAIN rows}

\* a probe that finds no store whatever the slug
SlugTaken_Never(rows, slug) == FALSE

\* this.findOne({ where: { slug } }) finds a store
SlugTaken(rows, slug) == \E i \in DOMAIN rows : rows[i].slug = slug

\* the table without its unique index
UniqueSlug_NoIndex(rows, id, slug) == TRUE

\* unique index on slug: no other row holds it
UniqueSlug(rows, id, slug) == \A i \in DOMAIN rows \ {id} : rows[i].slug # slug

NextStoreId == Cardinality(DOMAIN storeRows) + 1

\* Store.create({name, slug}): validation, then beforeCreate, which calls
\* generateSlug when no slug was given; generateSlug computes baseSlug and
\* runs up to its first findOne
StoreCreate(p, name, slug) ==
    /\ CanStartStore(p)
    /\ nOps' = nOps + 1
    /\ LET req == [IdleProc EXCEPT !.op = "createStore", !.layer = "model",
                       !.name = name, !.slug = slug]
       IN IF ~ValidName(name) \/ (slug # NoSlug /\ ~IsSlug(slug))
          THEN procs' = [procs EXCEPT ![p] = [req EXCEPT !.pc = "done", !.res = "ValidationError"]]
          ELSE IF slug = NoSlug
          THEN procs' = [procs EXCEPT ![p] = [req EXCEPT !.pc = "probe", !.gen = TRUE,
                            !.base = BaseSlug(name), !.slug = BaseSlug(name), !.counter = 1]]
          ELSE procs' = [procs EXCEPT ![p] = [req EXCEPT !.pc = "insert"]]
    /\ UNCHANGED <<ratings, stores, nextId, serial, stack, suite, storeRows, storeDocs, lastRec, e2e>>

\* store.update({name, slug}) on a freshly loaded store: validation of the
\* changed attributes, then beforeUpdate, which calls generateSlug when the
\* name changed and the slug did not
StoreUpdate(p, id, name, slug) ==
    /\ CanStartStore(p)
    /\ id \in DOMAIN storeRows
    /\ nOps' = nOps + 1
    /\ LET old == storeRows[id]
           nameChanged == name # old.name
           slugChanged == slug # NoSlug /\ slug # old.slug
           req == [IdleProc EXCEPT !.op = "updateStore", !.layer = "model", !.id = id,
                       !.name = IF nameChanged THEN name ELSE <<>>,
                       !.slug = IF slugChanged THEN slug ELSE old.slug,
                       !.srow0 = old, !.arg = slug]
       IN IF (nameChanged /\ ~ValidName(name)) \/ (slugChanged /\ ~IsSlug(slug))
          THEN procs' = [procs EXCEPT ![p] = [req EXCEPT !.pc = "done", !.res = "ValidationError"]]
          ELSE IF nameChanged /\ ~slugChanged
          THEN procs' = [procs EXCEPT ![p] = [req EXCEPT !.pc = "probe", !.gen = TRUE,
                            !.base = BaseSlug(name), !.slug = BaseSlug(name), !.counter = 1]]
          ELSE IF slugChanged
          THEN procs' = [procs EXCEPT ![p] = [req EXCEPT !.pc = "update"]]
          ELSE procs' = [procs EXCEPT ![p] = [req EXCEPT !.pc = "done", !.res = "ok"]]
    /\ UNCHANGED <<ratings, stores, nextId, serial, stack, suite, storeRows, storeDocs, lastRec, e2e>>

\* generateSlug: one turn of  while (await this.findOne({ where: { slug } }))
\* and, when the loop ends, the return into the hook; after beforeUpdate
\* the attributes the hook changed are validated again
GenerateSlugProbe(p) ==
    /\ procs[p].pc = "probe"
    /\ NoneDone
    /\ IF SlugTaken(storeRows, procs[p].slug)
       THEN procs' = [procs EXCEPT ![p].slug = Candidate(procs[p].base, procs[p].counter),
                                   ![p].counter = procs[p].counter + 1]
       ELSE IF procs[p].op = "createStore"
       THEN procs' = [procs EXCEPT ![p].pc = "insert"]
       ELSE IF IsSlug(procs[p].slug)
       THEN procs' = [procs EXCEPT ![p].pc = "update"]
       ELSE procs' = [procs EXCEPT ![p].pc = "done", ![p].res = "ValidationError"]
    /\ UNCHANGED <<ratings, stores, nextId, nOps, serial, stack, suite, storeRows, storeDocs, lastRec, e2e>>

\* Store.create: the INSERT
StoreInsert(p) ==
    /\ procs[p].pc = "insert"
    /\ NoneDone
    /\ IF UniqueSlug(storeRows, 0, procs[p].slug)
       THEN /\ storeRows' = storeRows @@
                   (NextStoreId :> [name |-> procs[p].name, slug |-> procs[p].slug])
            /\ procs' = [procs EXCEPT ![p].pc = "done", ![p].res = "ok", ![p].id = NextStoreId]
       ELSE /\ procs' = [procs EXCEPT ![p].pc = "done", ![p].res = "UniqueConstraintError"]
            /\ UNCHANGED storeRows
    /\ UNCHANGED <<ratings, stores, nextId, nOps, serial, stack, suite, storeDocs, lastRec, e2e>>

\* store.update: the UPDATE of the changed attributes (the request holds
\* the empty name when the name did not change)
StoreUpdateWrite(p) ==
    /\ procs[p].pc = "update"
    /\ NoneDone
    /\ IF UniqueSlug(storeRows, procs[p].id, procs[p].slug)
       THEN /\ storeRows' = [storeRows EXCEPT ![procs[p].id] =
                                [name |-> IF procs[p].name = <<>>
                                          THEN storeRows[procs[p].id].name
                                          ELSE procs[p].name,
                                 slug |-> procs[p].slug]]
            /\ procs' = [procs EXCEPT ![p].pc = "done", ![p].res = "ok"]
       ELSE /\ procs' = [procs EXCEPT ![p].pc = "done", ![p].res = "UniqueConstraintError"]
            /\ UNCHANGED storeRows
    /\ UNCHANGED <<ratings, stores, nextId, nOps, serial, stack, suite, storeDocs, lastRec, e2e>>

\* ------------------------------------------ reviewController.js handlers
\* addReview up to the duplicate check: Store.findById, Review.findOne
AddReview(p, u, s, r) ==
    /\ CanStartIn(p, "controller")
    /\ nOps' = nOps + 1
    /\ LET req == [IdleProc EXCEPT !.op = "addReview", !.layer = "controller",
                       !.user = u, !.store = s, !.rating = r]
       IN IF ReviewFindOne(ratings, u, s) # {}
          THEN procs' = [procs EXCEPT ![p] = [req EXCEPT !.pc = "done", !.res = "400 already reviewed"]]
          ELSE procs' = [procs EXCEPT ![p] = [req EXCEPT !.pc = "create"]]
    /\ e2e' = E2EOff
    /\ UNCHANGED <<ratings, stores, nextId, serial, stack, suite, storeRows, storeDocs, lastRec>>

\* addReview: await Review.create({...}); a rejected insert is caught by the
\* handler's catch and answered with 500
AddReviewCreate(p) ==
    /\ procs[p].pc = "create"
    /\ NoneDone
    /\ LET u == procs[p].user
           s == procs[p].store
       IN IF UniqueUserStore(ratings, u, s)
          THEN /\ ratings' = ratings @@ (nextId :> NewRating(u, s, procs[p].rating))
               /\ nextId' = nextId + 1
               /\ procs' = MarkDirty([procs EXCEPT ![p].id = nextId, ![p].pc = "usrFind"], s)
               /\ lastRec' = [lastRec EXCEPT ![s] = NoRec]
          ELSE /\ procs' = [procs EXCEPT ![p].pc = "done", ![p].res = "500 Server Error"]
               /\ UNCHANGED <<ratings, nextId, lastRec>>
    /\ UNCHANGED <<stores, nOps, serial, stack, suite, storeRows, storeDocs, e2e>>

\* an assignment without the fallback to the prior value
OrElse_Assign(new, old) == new

\* new || old
OrElse(new, old) == IF new \in {UNDEFINED, NULL, ""} THEN old ELSE new

\* the fields updateReview assigns
EditFields == {"rating", "title", "comment", "images"}

\* the document after the four assignments of updateReview (the request
\* holds rating 0 when the assignment leaves the rating as loaded)
Assigned(row, r, body) ==
    [row EXCEPT !.rating = IF r # 0 THEN r ELSE row.rating,
                !.title = OrElse(body.title, row.title),
                !.comment = OrElse(body.comment, row.comment),
                !.images = OrElse(body.images, row.images)]

\* the modified paths of the document
Modified(row, r, body) == {f \in EditFields : Assigned(row, r, body)[f] # row[f]}

\* updateReview up to the assignments: Review.findById, owner check,
\* review.rating = rating || review.rating  (r = 0: rating not provided)
UpdateReview(p, actor, id, r, body) ==
    /\ CanStartEdit(p)
    /\ nOps' = nOps + 1
    /\ LET req == [IdleProc EXCEPT !.op = "updateReview", !.layer = "controller",
                       !.user = actor, !.id = id, !.body = body]
       IN IF id \notin DOMAIN ratings
          THEN procs' = [procs EXCEPT ![p] = [req EXCEPT !.pc = "done", !.res = "404 Review not found"]]
          ELSE IF ratings[id].user_id # actor
          THEN procs' = [procs EXCEPT ![p] = [req EXCEPT !.pc = "done", !.res = "403 Access denied",
                            !.store = ratings[id].store_id, !.row0 = ratings[id],
                            !.snap = stores[ratings[id].store_id]]]
          ELSE procs' = [procs EXCEPT ![p] = [req EXCEPT !.pc = "saveReview",
                            !.store = ratings[id].store_id, !.row0 = ratings[id],
                            !.rating = IF r # 0 /\ r # ratings[id].rating THEN r ELSE 0]]
    /\ e2e' = E2EOff
    /\ UNCHANGED <<ratings, stores, nextId, serial, stack, suite, storeRows, storeDocs, lastRec>>

\* updateReview: await review.save(); the document's modified paths are
\* written by id, and a document that is gone makes save() reject
UpdateReviewSave(p) ==
    /\ procs[p].pc = "saveReview"
    /\ NoneDone
    /\ LET id == procs[p].id
           s == procs[p].store
           new == Assigned(procs[p].row0, procs[p].rating, procs[p].body)
           mod == Modified(procs[p].row0, procs[p].rating, procs[p].body)
       IN IF mod = {}
          THEN /\ procs' = [procs EXCEPT ![p].pc = "usrFind"]
               /\ UNCHANGED <<ratings, lastRec>>
          ELSE IF id \in DOMAIN ratings
          THEN /\ ratings' = [ratings EXCEPT ![id] =
                      [f \in DOMAIN ratings[id] |->
                          IF f \in mod THEN new[f] ELSE ratings[id][f]]]
               /\ IF "rating" \in mod
                  THEN /\ procs' = MarkDirty([procs EXCEPT ![p].pc = "usrFind"], s)
                       /\ lastRec' = [lastRec EXCEPT ![s] = NoRec]
                  ELSE /\ procs' = [procs EXCEPT ![p].pc = "usrFind"]
                       /\ UNCHANGED lastRec
          ELSE /\ procs' = [procs EXCEPT ![p].pc = "done", ![p].res = "500 Server Error"]
               /\ UNCHANGED <<ratings, lastRec>>
    /\ UNCHANGED <<stores, nextId, nOps, serial, stack, suite, storeRows, storeDocs, e2e>>

\* deleteReview up to the delete: Review.findById, owner-or-admin check
DeleteReview(p, actor, role, id) ==
    /\ CanStartRemove(p)
    /\ nOps' = nOps + 1
    /\ LET req == [IdleProc EXCEPT !.op = "deleteReview", !.layer = "controller",
                       !.user = actor, !.role = role, !.id = id]
       IN IF id \notin DOMAIN ratings
          THEN procs' = [procs EXCEPT ![p] = [req EXCEPT !.pc = "done", !.res = "404 Review not found"]]
          ELSE IF ratings[id].user_id # actor /\ role # "admin"
          THEN procs' = [procs EXCEPT ![p] = [req EXCEPT !.pc = "done", !.res = "403 Access denied",
                            !.store = ratings[id].store_id, !.row0 = ratings[id],
                            !.snap = stores[ratings[id].store_id]]]
          ELSE procs' = [procs EXCEPT ![p] = [req EXCEPT !.pc = "deleteOne",
                            !.store = ratings[id].store_id, !.row0 = ratings[id]]]
    /\ e2e' = E2EOff
    /\ UNCHANGED <<ratings, stores, nextId, serial, stack, suite, storeRows, storeDocs, lastRec>>

\* deleteReview: await review.deleteOne()
DeleteReviewDelete(p) ==
    /\ procs[p].pc = "deleteOne"
    /\ NoneDone
    /\ LET id == procs[p].id
           s == procs[p].store
       IN /\ ratings' = [i \in DOMAIN ratings \ {id} |-> ratings[i]]
          /\ procs' = MarkDirty([procs EXCEPT ![p].pc = "usrFind"], s)
          /\ lastRec' = IF id \in DOMAIN ratings THEN [lastRec EXCEPT ![s] = NoRec] ELSE lastRec
    /\ UNCHANGED <<stores, nextId, nOps, serial, stack, suite, storeRows, storeDocs, e2e>>

\* reportReview: Review.findById, the reason check, console.log
ReportReview(p, id, reason) ==
    /\ CanStartIn(p, "controller")
    /\ nOps' = nOps + 1
    /\ LET req == [IdleProc EXCEPT !.op = "reportReview", !.layer = "controller",
                       !.id = id, !.reason = reason, !.pc = "done"]
       IN IF id \notin DOMAIN ratings
          THEN procs' = [procs EXCEPT ![p] = [req EXCEPT !.res = "404 Review not found"]]
          ELSE IF reason \in {NULL, ""}
          THEN procs' = [procs EXCEPT ![p] = [req EXCEPT !.res = "400 Report reason is required",
                                                        !.store = ratings[id].store_id]]
          ELSE procs' = [procs EXCEPT ![p] = [req EXCEPT !.res = "200 reported",
                                                        !.store = ratings[id].store_id]]
    /\ e2e' = E2EOff
    /\ UNCHANGED <<ratings, stores, nextId, serial, stack, suite, storeRows, storeDocs, lastRec>>

\* updateStoreRating: const reviews = await Review.find({ store: storeId }),
\* and the computation up to the next await
UpdateStoreRatingFind(p) ==
    /\ procs[p].pc = "usrFind"
    /\ NoneDone
    /\ procs' = [procs EXCEPT
           ![p].calc = StoreRating(ratings, ReviewFind(ratings, procs[p].store)),
           ![p].dirty = FALSE,
           ![p].pc = "usrUpdate"]
    /\ UNCHANGED <<ratings, stores, nextId, nOps, serial, stack, suite, storeRows, storeDocs, lastRec, e2e>>

\* what the handler answers after updateStoreRating returned
Answer(op) == IF op = "addReview" THEN "201 Review added" ELSE "200 ok"

\* updateStoreRating: await Store.findByIdAndUpdate(storeId, {averageRating,
\* totalReviews}); then the handler answers
UpdateStoreRatingUpdate(p) ==
    /\ procs[p].pc = "usrUpdate"
    /\ NoneDone
    /\ LET s == procs[p].store
       IN /\ stores' = [stores EXCEPT ![s] = procs[p].calc]
          /\ lastRec' = [lastRec EXCEPT ![s] =
                 IF ~procs[p].dirty
                 THEN NextRec(lastRec[s], "controller", procs[p].calc)
                 ELSE NoRec]
    /\ procs' = [procs EXCEPT ![p].pc = "done", ![p].res = Answer(procs[p].op)]
    /\ UNCHANGED <<ratings, nextId, nOps, serial, stack, suite, storeRows, storeDocs, e2e>>

\* --------------------------------------------- storeController.js handlers
\* new RegExp('^' + name + '$', 'i'): the names of the requests, without
\* regard to case
LowerName(name) ==
    IF name = "Shop" THEN "shop" ELSE IF name = "Deli" THEN "deli" ELSE name

\* a createStore that hands the whole body to Store.create
CreateFields_WholeBody(body) == body

\* const { name, ..., images } = req.body: what createStore takes from the
\* body; isVerified and the rating fields are not among it
CreateFields(body) ==
    [body EXCEPT !.isVerified = UNDEFINED, !.averageRating = Absent,
                 !.totalReviews = Absent]

\* the rating fields of a document created from `fields`: the defaults
\* unless given
NewStoreStats(fields) ==
    [average_rating |-> IF fields.averageRating = Absent THEN 0
                        ELSE fields.averageRating,
     total_reviews |-> IF fields.totalReviews = Absent THEN 0
                       ELSE fields.totalReviews]

\* the other fields of a document created from `fields` for owner
NewStoreDoc(fields, owner) ==
    [name |-> fields.name, owner |-> owner,
     is_verified |-> IF fields.isVerified = UNDEFINED THEN "false"
                     ELSE fields.isVerified]

\* the ids of the documents that do not exist
FreeStoreIds == StoreIds \ DOMAIN storeDocs

\* the creations that passed their checks and have not inserted yet
Creating == {q \in Procs : procs[q].pc = "storeCreate"}

\* createStore up to Store.create: the role check and the findOne for a
\* store of the same name and owner
CreateStore(p, actor, role, body) ==
    /\ CanStartCatalog(p)
    /\ Cardinality(Creating) < Cardinality(FreeStoreIds)
    /\ nOps' = nOps + 1
    /\ LET req == [IdleProc EXCEPT !.op = "postStore", !.layer = "controller",
                       !.user = actor, !.role = role, !.sbody = body]
           existing == {i \in DOMAIN storeDocs :
                           /\ LowerName(storeDocs[i].name) = LowerName(body.name)
                           /\ storeDocs[i].owner = actor}
       IN IF role \notin {"store_owner", "admin"}
          THEN procs' = [procs EXCEPT ![p] = [req EXCEPT !.pc = "done", !.res = "403 Access denied"]]
          ELSE IF existing # {}
          THEN procs' = [procs EXCEPT ![p] = [req EXCEPT !.pc = "done",
                            !.res = "400 You already have a store with this name"]]
          ELSE procs' = [procs EXCEPT ![p] = [req EXCEPT !.pc = "storeCreate"]]
    /\ UNCHANGED <<ratings, stores, nextId, serial, stack, suite, storeRows, storeDocs, lastRec, e2e>>

\* createStore: await Store.create({name, ..., owner}), then the answer
CreateStoreCreate(p) ==
    /\ procs[p].pc = "storeCreate"
    /\ NoneDone
    /\ \E id \in Lowest(FreeStoreIds) :
          LET fields == CreateFields(procs[p].sbody)
          IN /\ storeDocs' = storeDocs @@ (id :> NewStoreDoc(fields, procs[p].user))
             /\ stores' = [stores EXCEPT ![id] = NewStoreStats(fields)]
             /\ procs' = [procs EXCEPT ![p].pc = "done", ![p].id = id,
                                        ![p].res = "201 Store created"]
    /\ UNCHANGED <<ratings, nextId, nOps, serial, stack, suite, storeRows, lastRec, e2e>>

\* the fields of a store document, the rating fields included
StoreFields == {"name", "owner", "is_verified", "average_rating", "total_reviews"}

\* the document after the assignments of updateStore: store.name = name ||
\* store.name, and isVerified when an admin gives it
StoreAssigned(doc, body, role) ==
    [doc EXCEPT !.name = OrElse(body.name, doc.name),
                !.is_verified = IF role = "admin" /\ body.isVerified # UNDEFINED
                                THEN body.isVerified ELSE doc.is_verified]

\* the modified paths of the document
StoreModified(doc, body, role) ==
    {f \in StoreFields : StoreAssigned(doc, body, role)[f] # doc[f]}

\* updateStore up to the save: Store.findById, the owner-or-admin check
UpdateStore(p, actor, role, id, body) ==
    /\ CanStartCatalog(p)
    /\ nOps' = nOps + 1
    /\ LET req == [IdleProc EXCEPT !.op = "putStore", !.layer = "controller",
                       !.user = actor, !.role = role, !.id = id, !.sbody = body]
       IN IF id \notin DOMAIN storeDocs
          THEN procs' = [procs EXCEPT ![p] = [req EXCEPT !.pc = "done", !.res = "404 Store not found"]]
          ELSE IF storeDocs[id].owner # actor /\ role # "admin"
          THEN procs' = [procs EXCEPT ![p] = [req EXCEPT !.pc = "done", !.res = "403 Access denied",
                            !.sdoc0 = storeDocs[id], !.snap = stores[id]]]
          ELSE procs' = [procs EXCEPT ![p] = [req EXCEPT !.pc = "storeSave",
                            !.sdoc0 = storeDocs[id], !.snap = stores[id]]]
    /\ UNCHANGED <<ratings, stores, nextId, serial, stack, suite, storeRows, storeDocs, lastRec, e2e>>

\* updateStore: await store.save() writes the modified paths of the
\* document, then the answer
UpdateStoreSave(p) ==
    /\ procs[p].pc = "storeSave"
    /\ NoneDone
    /\ LET id == procs[p].id
           doc == [name |-> procs[p].sdoc0.name, owner |-> procs[p].sdoc0.owner,
                   is_verified |-> procs[p].sdoc0.is_verified,
                   average_rating |-> procs[p].snap.average_rating,
                   total_reviews |-> procs[p].snap.total_reviews]
           new == StoreAssigned(doc, procs[p].sbody, procs[p].role)
           mod == StoreModified(doc, procs[p].sbody, procs[p].role)
       IN /\ storeDocs' = [storeDocs EXCEPT ![id] =
                 [f \in DOMAIN storeDocs[id] |->
                     IF f \in mod THEN new[f] ELSE storeDocs[id][f]]]
          /\ stores' = [stores EXCEPT ![id] =
                 [f \in DOMAIN stores[id] |->
                     IF f \in mod THEN new[f] ELSE stores[id][f]]]
    /\ procs' = [procs EXCEPT ![p].pc = "done", ![p].res = "200 Store updated"]
    /\ UNCHANGED <<ratings, nextId, nOps, serial, stack, suite, storeRows, lastRec, e2e>>

\* updateStoreRating: the awaited Review.find or Store.findByIdAndUpdate
\* rejects (the storage fails); the catch of updateStoreRating logs the
\* error and the helper returns, so the handler goes on to its answer
UpdateStoreRatingCatch(p) ==
    /\ suite = "faults"
    /\ procs[p].pc \in {"usrFind", "usrUpdate"}
    /\ NoneDone
    /\ procs' = [procs EXCEPT ![p].failed = TRUE, ![p].pc = "done",
                               ![p].res = Answer(procs[p].op)]
    /\ UNCHANGED <<ratings, stores, nextId, nOps, serial, stack, suite, storeRows, storeDocs, lastRec, e2e>>

Methods == {"flag", "unflag", "approve", "reject"}

Next ==
    \/ \E p \in Procs : CanStartIn(p, "model") /\ \E u \in UserChoices, s \in StoreChoices, r \in RatingInputs : RatingCreate(p, u, s, r)
    \/ \E p \in Procs : CanStartIn(p, "model") /\ \E id \in DOMAIN ratings, m \in Methods, reason \in ReasonInputs, role \in Roles : RatingMethod(p, id, m, reason, role)
    \/ \E p \in Procs : CanStartIn(p, "model") /\ \E id \in DOMAIN ratings : RatingDestroy(p, id)
    \/ \E p \in Procs : CanStartIn(p, "model") /\ \E s \in StoreChoices : Recompute(p, s)
    \/ \E p \in Procs : HookGetStore(p)
    \/ \E p \in Procs : UpdateRatingStatsRead(p)
    \/ \E p \in Procs : UpdateRatingStatsSave(p)
    \/ \E p \in Procs : CanStartIn(p, "controller") /\ \E u \in UserChoices, s \in StoreChoices, r \in RatingInputs : AddReview(p, u, s, r)
    \/ \E p \in Procs : AddReviewCreate(p)
    \/ \E p \in Procs : CanStartEdit(p) /\ \E id \in IdChoices : \E u \in ActorChoices(id) : \E e \in EditChoices(id, u) : UpdateReview(p, u, id, e[1], e[2])
    \/ \E p \in Procs : UpdateReviewSave(p)
    \/ \E p \in Procs : CanStartRemove(p) /\ \E id \in IdChoices : \E u \in ActorChoices(id) : \E role \in DeleteRoles(id, u) : DeleteReview(p, u, role, id)
    \/ \E p \in Procs : DeleteReviewDelete(p)
    \/ \E p \in Procs : CanStartIn(p, "controller") /\ \E id \in IdChoices, reason \in ReasonInputs : ReportReview(p, id, reason)
    \/ \E p \in Procs : UpdateStoreRatingFind(p)
    \/ \E p \in Procs : UpdateStoreRatingUpdate(p)
    \/ \E p \in Procs : UpdateStoreRatingCatch(p)
    \/ \E p \in Procs : CanStartCatalog(p) /\ \E actor \in StoreActors, role \in {"customer", "store_owner"} : \E body \in CreateBodies(role) : CreateStore(p, actor, role, body)
    \/ \E p \in Procs : CreateStoreCreate(p)
    \/ \E p \in Procs : CanStartCatalog(p) /\ \E id \in StoreIdChoices : \E actor \in StoreActors : \E role \in UpdateRoles(id, actor) : \E body \in UpdateBodies(id, actor, role) : UpdateStore(p, actor, role, id, body)
    \/ \E p \in Procs : UpdateStoreSave(p)
    \/ \E p \in Procs : Return(p)
    \/ \E p \in Procs : CanStartStore(p) /\ \E name \in NameInputs, slug \in SlugInputs : StoreCreate(p, name, slug)
    \/ \E p \in Procs : CanStartStore(p) /\ \E id \in DOMAIN storeRows, name \in NameInputs, slug \in SlugInputs : StoreUpdate(p, id, name, slug)
    \/ \E p \in Procs : CanStartEngage(p, "controller") /\ \E id \in IdChoices : \E actor \in ActorChoices(id) : VoteReview(p, actor, id)
    \/ \E p \in Procs : VoteReviewSave(p)
    \/ \E p \in Procs : CanStartEngage(p, "model") /\ \E id \in DOMAIN ratings : AddHelpfulVote(p, id)
    \/ \E p \in Procs : AddHelpfulVoteSave(p)
    \/ \E p \in Procs : CanStartEngage(p, "controller") /\ \E id \in IdChoices : \E actor \in ActorChoices(id) : \E role \in ReplyRoles(id, actor), text \in TextChoices(id, actor) : AddReply(p, actor, role, id, text)
    \/ \E p \in Procs : AddReplySave(p)
    \/ \E p \in Procs : CanStartEngage(p, "model") /\ \E id \in DOMAIN ratings, text \in ReplyInputs, authorId \in Users : RatingAddReply(p, id, text, authorId)
    \/ \E p \in Procs : RatingAddReplySave(p)
    \/ \E p \in Procs : GenerateSlugProbe(p)
    \/ \E p \in Procs : StoreInsert(p)
    \/ \E p \in Procs : StoreUpdateWrite(p)

Spec == Init /\ [][Next]_vars

\* the runs that issue their requests one at a time
SerialInit == Init /\ serial = TRUE

SerialSpec == SerialInit /\ [][Next]_vars

\* ----------------------------------------------------------------- claims
\* the reviews of store s that count: is_approved = true
ApprovedOf(s) == {i \in DOMAIN ratings : ratings[i].store_id = s /\ ratings[i].is_approved}

\* mean of the approved ratings, rounded half-up to hundredths; 0 if none
ApprovedMean(s) ==
    IF ApprovedOf(s) = {} THEN 0
    ELSE (200 * SumRatings(ratings, ApprovedOf(s)) + Cardinality(ApprovedOf(s)))
             \div (2 * Cardinality(ApprovedOf(s)))

\* C1: whenever no request is in progress, every store's total_reviews is
\* the number of its reviews with is_approved = true.
C1_TotalIsApprovedCount ==
    Quiet => \A s \in StoreIds : stores[s].total_reviews = Cardinality(ApprovedOf(s))

\* C2: whenever no request is in progress, every store's average_rating is
\* the mean rating of its approved reviews rounded half-up to two decimals,
\* and 0.00 when it has none.
C2_AverageIsApprovedMean ==
    Quiet => \A s \in StoreIds : stores[s].average_rating = ApprovedMean(s)

\* C3: once concurrent mutations of a store's reviews have all completed,
\* the store's aggregate is the one a recompute of the current review set
\* gives: no recompute that read an older review set has the last word.
C3_NoLostUpdate ==
    Quiet => \A s \in StoreIds :
        stores[s] \in {RatingStats(stores[s], ratings, GetRatings(ratings, s)),
                       StoreRating(ratings, ReviewFind(ratings, s))}

C5_DuplicateKind ==
    \A p \in Procs :
        (procs[p].op = "addReview" /\ procs[p].pc = "done" /\ procs[p].id = 0)
            => procs[p].res = "400 already reviewed"

\* C6: once flag(id, reason) with an allowed reason has completed on an
\* approved review (and nothing else is running), the review is flagged with
\* that reason and not approved, and the store's aggregate is the one of its
\* approved reviews, which leaves this review out.
C6_FlagExcludesReview ==
    \A p \in Procs :
        (/\ procs[p].op = "flag" /\ procs[p].pc = "done" /\ procs[p].res = "ok"
         /\ procs[p].reason \in FlagReasons /\ procs[p].approved0
         /\ Quiet /\ procs[p].id \in DOMAIN ratings)
            => /\ ratings[procs[p].id].is_flagged
               /\ ratings[procs[p].id].flag_reason = procs[p].reason
               /\ ~ratings[procs[p].id].is_approved
               /\ stores[procs[p].store].total_reviews = Cardinality(ApprovedOf(procs[p].store))
               /\ stores[procs[p].store].average_rating = ApprovedMean(procs[p].store)

\* C7: from a store with no reviews: after A submits 5 the store has 5.00
\* and 1; after B submits 3 it has 4.00 and 2; after the rating-3 review is
\* flagged it has 5.00 and 1; after the rating-5 review is deleted it has
\* 0.00 and 0.
C7_EndToEnd ==
    (e2e.stage >= 1 /\ e2e.run = 0) =>
        stores[e2e.store] =
            IF e2e.stage = 1 THEN [average_rating |-> 500, total_reviews |-> 1]
            ELSE IF e2e.stage = 2 THEN [average_rating |-> 400, total_reviews |-> 2]
            ELSE IF e2e.stage = 3 THEN [average_rating |-> 500, total_reviews |-> 1]
            ELSE [average_rating |-> 0, total_reviews |-> 0]

\* C8: a recompute that follows a recompute of the same store, with no
\* change of the store's reviews in between, computes the pair the first one
\* left in the store and leaves the store unchanged.
C8_RecomputeIdempotent ==
    [][\A p \in Procs :
        (/\ procs[p].pc \in {"saveStore", "usrUpdate"}
         /\ procs'[p].pc = "done"
         /\ ~procs[p].dirty
         /\ lastRec[procs[p].store].by = procs[p].layer)
            => /\ procs[p].calc.average_rating = lastRec[procs[p].store].average_rating
               /\ procs[p].calc.total_reviews = lastRec[procs[p].store].total_reviews
               /\ stores' = stores]_vars

\* two recomputes in a row have completed on a store that has reviews
C8_Witness ==
    \E s \in StoreIds : lastRec[s].n = 2 /\ lastRec[s].total_reviews >= 1

\* C9: every persisted review with is_flagged = true has a flag_reason of
\* the enum.
C9_FlaggedHasReason ==
    \A i \in DOMAIN ratings : ratings[i].is_flagged => ratings[i].flag_reason \in FlagReasons

\* C10: a flag request for an existing review whose reason is null, empty
\* or outside the enum is answered with an error at once, before anything
\* is written.
C10_InvalidReasonFails ==
    \A p \in Procs :
        (/\ procs[p].op \in {"flag", "reportReview"} /\ procs[p].pc # "idle"
         /\ procs[p].store # 0 /\ procs[p].reason \notin FlagReasons)
            => /\ procs[p].pc = "done"
               /\ procs[p].res \in {"ValidationError", "DatabaseError",
                                     "400 Report reason is required"}

\* C11: once unflag() has completed on a flagged review (and nothing else is
\* running), the review has is_flagged = false, flag_reason = null and
\* is_approved = true, and the store's average_rating and total_reviews are
\* those of a set of its reviews that holds this review and every approved
\* one.
C11_UnflagRestoresReview ==
    \A p \in Procs :
        (/\ procs[p].op = "unflag" /\ procs[p].pc = "done" /\ procs[p].res = "ok"
         /\ procs[p].row0.is_flagged /\ Quiet /\ procs[p].id \in DOMAIN ratings)
            => /\ ~ratings[procs[p].id].is_flagged
               /\ ratings[procs[p].id].flag_reason = NULL
               /\ ratings[procs[p].id].is_approved
               /\ \E S \in SUBSET GetRatings(ratings, procs[p].store) :
                      /\ procs[p].id \in S
                      /\ ApprovedOf(procs[p].store) \subseteq S
                      /\ stores[procs[p].store].total_reviews = Cardinality(S)
                      /\ stores[procs[p].store].average_rating =
                             ToFixed2(SumRatings(ratings, S), Cardinality(S))

\* unflag() has completed on a review that was flagged with a reason and not
\* approved, and the store counts a review
C11_Witness ==
    \E p \in Procs :
        /\ procs[p].op = "unflag" /\ procs[p].pc = "done" /\ procs[p].res = "ok"
        /\ procs[p].row0.is_flagged /\ ~procs[p].row0.is_approved
        /\ procs[p].row0.flag_reason \in FlagReasons
        /\ stores[procs[p].store].total_reviews >= 1

\* C12: unflag(), approve() and reject() called by an actor who is not an
\* admin fail at once and leave the review as it was loaded; no recompute
\* of the store is started.
C12_ModerationNeedsAdmin ==
    \A p \in Procs :
        (/\ procs[p].op \in {"unflag", "approve", "reject"}
         /\ procs[p].role # "admin")
            => /\ procs[p].pc = "done"
               /\ procs[p].res # "ok"
               /\ procs[p].id \in DOMAIN ratings => ratings[procs[p].id] = procs[p].row0

\* the slug the claim gives for a base and a set of existing slugs: the base
\* if it is free, else base-k for the smallest k >= 1 with base-k free
ExpectedSlug(base, existing) ==
    IF base \notin existing THEN base
    ELSE Candidate(base,
             CHOOSE k \in 1..(Cardinality(existing) + 1) :
                 /\ Candidate(base, k) \notin existing
                 /\ \A j \in 1..(k - 1) : Candidate(base, j) \in existing)

\* C13: when generateSlug(name) has returned (and the table has not changed
\* since it was called), its result is the normalized base if no store has
\* that slug, and otherwise base-k for the smallest k >= 1 that no store
\* has; it is a function of the name and the existing slugs, and no store
\* has it.
C13_GenerateSlugFirstFree ==
    \A p \in Procs :
        (procs[p].gen /\ procs[p].pc \in {"insert", "update"})
            => /\ procs[p].slug = ExpectedSlug(procs[p].base, Slugs(storeRows))
               /\ procs[p].slug \notin Slugs(storeRows)

\* generateSlug returned base-1 for a name whose base js-c was taken
C13_Witness ==
    \E p \in Procs :
        /\ procs[p].gen /\ procs[p].pc = "insert"
        /\ procs[p].base = <<"j", "s", "-", "c">>
        /\ procs[p].base \in Slugs(storeRows)
        /\ procs[p].slug = <<"j", "s", "-", "c", "-", "1">>

\* non-empty, characters of [a-z0-9-] only, no two hyphens in a row, no
\* hyphen at either end
WellFormedSlug(str) ==
    /\ IsSlug(str)
    /\ \A i \in 1..(Len(str) - 1) : ~(str[i] = "-" /\ str[i + 1] = "-")
    /\ str[1] # "-" /\ str[Len(str)] # "-"

\* C14: the slug of every store is non-empty, consists of characters of
\* [a-z0-9-], has no two consecutive hyphens and neither starts nor ends
\* with a hyphen.
C14_SlugWellFormed ==
    \A i \in DOMAIN storeRows : WellFormedSlug(storeRows[i].slug)

\* C15: no two stores have the same slug, whatever the interleaving of
\* creations and renames.
C15_SlugUnique ==
    \A i, j \in DOMAIN storeRows : storeRows[i].slug = storeRows[j].slug => i = j

\* a creation whose probe found its slug free lost the insert to a
\* concurrent creation with the same slug
C15_Witness ==
    \E p \in Procs :
        /\ procs[p].op = "createStore" /\ procs[p].gen /\ procs[p].pc = "done"
        /\ procs[p].res = "UniqueConstraintError"
        /\ \E i \in DOMAIN storeRows : storeRows[i].slug = procs[p].slug

\* C16: every vote call that succeeds raises the persisted helpful_votes of
\* the review by exactly 1 and returns the resulting count, whether the
\* votes come one after the other or overlap.
C16_VoteAddsOne ==
    [][\A p \in Procs :
        (/\ procs[p].pc \in {"voteSave", "helpfulSave"}
         /\ procs'[p].pc = "done"
         /\ procs'[p].res \in {"200 Vote recorded", "ok"})
            => /\ procs[p].id \in DOMAIN ratings
               /\ ratings'[procs[p].id].helpful_votes = ratings[procs[p].id].helpful_votes + 1
               /\ procs'[p].ret = ratings'[procs[p].id].helpful_votes]_vars

NotAllowed(p) ==
    /\ procs[p].store # 0
    /\ \/ /\ procs[p].op = "updateReview"
          /\ procs[p].user # procs[p].row0.user_id
       \/ /\ procs[p].op = "deleteReview"
          /\ procs[p].user # procs[p].row0.user_id
          /\ procs[p].role # "admin"
       \/ /\ procs[p].op = "addReply"
          /\ procs[p].user # StoreOwner(procs[p].store)
          /\ procs[p].role # "admin"

\* C18: an edit, a removal or a reply by an actor who is not allowed to do
\* it is answered Forbidden (403) at once, and the review and the average
\* and count of its store are what they were when the request found them.
C18_Forbidden ==
    \A p \in Procs :
        NotAllowed(p)
            => /\ procs[p].pc = "done"
               /\ procs[p].res = "403 Access denied"
               /\ procs[p].id \in DOMAIN ratings
               /\ ratings[procs[p].id] = procs[p].row0
               /\ stores[procs[p].store].average_rating = procs[p].snap.average_rating
               /\ stores[procs[p].store].total_reviews = procs[p].snap.total_reviews

\* the author of a review, a customer who does not own the store, asked
\* to reply to it and was refused
C18_Witness ==
    \E p \in Procs :
        /\ procs[p].op = "addReply" /\ procs[p].pc = "done"
        /\ procs[p].res = "403 Access denied"
        /\ procs[p].role = "customer"
        /\ procs[p].user = procs[p].row0.user_id
        /\ procs[p].text = "thanks"

\* the fields an edit never touches
FrozenFields ==
    {"user_id", "store_id", "helpful_votes", "reply", "is_flagged",
     "flag_reason", "is_approved", "is_verified_purchase"}

\* C19: the save of an edit changes, among rating, title, comment and
\* images, only fields the request provided; a field it did not provide
\* keeps the value it had, and user_id, store_id, helpful_votes, reply,
\* is_flagged, flag_reason, is_approved and is_verified_purchase are not
\* changed by it.
C19_EditFrame ==
    [][\A p \in Procs :
        (/\ procs[p].pc = "saveReview"
         /\ procs'[p].pc # "saveReview"
         /\ procs[p].id \in DOMAIN ratings)
            => /\ procs[p].id \in DOMAIN ratings'
               /\ LET old == ratings[procs[p].id]
                      new == ratings'[procs[p].id]
                  IN /\ procs[p].rating = 0 => new.rating = old.rating
                     /\ \A f \in {"title", "comment", "images"} :
                            procs[p].body[f] = UNDEFINED => new[f] = old[f]
                     /\ \A f \in FrozenFields : new[f] = old[f]]_vars

\* an edit that gave a title only was saved: the title is the new one, the
\* comment is the old one, and a vote recorded between the edit's load and
\* its save is still there
C19_Witness ==
    \E p \in Procs :
        /\ procs[p].op = "updateReview" /\ procs[p].pc = "usrFind"
        /\ procs[p].body.title = "new title"
        /\ procs[p].id \in DOMAIN ratings
        /\ ratings[procs[p].id].title = "new title"
        /\ ratings[procs[p].id].comment = "old comment"
        /\ procs[p].row0.helpful_votes = 0
        /\ ratings[procs[p].id].helpful_votes = 1

\* C20: after a reply that succeeded, the reply of the review is exactly
\* the text given, the time of the call and the actor as author_id,
\* whatever reply the review had before.
C20_ReplyExact ==
    \A p \in Procs :
        (/\ procs[p].op \in {"addReply", "ratingAddReply"}
         /\ procs[p].pc = "done"
         /\ procs[p].res \in {"200 Reply added", "ok"}
         /\ procs[p].id \in DOMAIN ratings)
            => ratings[procs[p].id].reply =
                   [text |-> procs[p].text, date |-> procs[p].at,
                    author_id |-> procs[p].user]

\* C26: no stored review is flagged and approved at once, whatever flag,
\* unflag, approve and reject calls were made; an approve() of a flagged
\* review leaves it approved and not flagged.
C26_NotFlaggedAndApproved ==
    \A id \in DOMAIN ratings :
        ~(ratings[id].is_flagged /\ ratings[id].is_approved)

\* C27: unflag() of a review that is not flagged leaves is_approved as it
\* was; a rejected review does not become approved by it.
C27_UnflagOnlyFlagged ==
    \A p \in Procs :
        (/\ procs[p].op = "unflag"
         /\ ~procs[p].row0.is_flagged
         /\ procs[p].id \in DOMAIN ratings)
            => ratings[procs[p].id].is_approved = procs[p].row0.is_approved

\* C28: in every state, also between the steps of overlapping requests,
\* the average and the count of a store belong together: the count is 0
\* exactly when the average is 0.00, and with a count above 0 the average
\* lies between 1.00 and 5.00.
C28_StatsBelongTogether ==
    \A s \in StoreIds :
        /\ stores[s].total_reviews = 0 <=> stores[s].average_rating = 0
        /\ stores[s].total_reviews > 0 =>
               /\ 100 <= stores[s].average_rating
               /\ stores[s].average_rating <= 500

\* C25: an update of a store that changes the name and gives no slug
\* stores a slug generated from the new name; an update that gives a slug
\* stores that slug and generates none; an update that leaves the name and
\* gives no slug leaves the slug.
C25_SlugRegeneration ==
    \A p \in Procs :
        (/\ procs[p].op = "updateStore" /\ procs[p].pc = "done"
         /\ procs[p].res = "ok")
            => LET now == storeRows[procs[p].id].slug
               IN /\ (procs[p].name # <<>> /\ procs[p].arg = NoSlug)
                        => /\ procs[p].gen
                           /\ procs[p].base = BaseSlug(procs[p].name)
                           /\ now = procs[p].slug
                  /\ procs[p].arg # NoSlug
                        => ~procs[p].gen /\ now = procs[p].arg
                  /\ (procs[p].name = <<>> /\ procs[p].arg = NoSlug)
                        => ~procs[p].gen /\ now = procs[p].srow0.slug

\* C29: an update of a store's name to another name with the same base as
\* the store's slug leaves the slug: the probe does not take the store's
\* own row for a collision.
C29_OwnSlugIsNoCollision ==
    \A p \in Procs :
        (/\ procs[p].op = "updateStore" /\ procs[p].pc = "done"
         /\ procs[p].res = "ok"
         /\ procs[p].name # <<>> /\ procs[p].arg = NoSlug
         /\ BaseSlug(procs[p].name) = procs[p].srow0.slug)
            => storeRows[procs[p].id].slug = procs[p].srow0.slug

\* the positions of a request inside a recompute
RecomputePcs == {"getStore", "getRatings", "saveStore", "usrFind", "usrUpdate"}

\* request P is an update of a review that changes neither rating nor
\* is_approved: a vote, a reply, an edit that leaves the rating, a
\* moderation call that leaves is_approved
LeavesStats(P) ==
    \/ P.op \in {"voteReview", "addHelpfulVote", "addReply", "ratingAddReply"}
    \/ P.op = "updateReview" /\ P.store # 0 /\ P.rating = 0
    \/ /\ P.op \in Methods
       /\ ApplyMethod(P.op, P.row0, P.reason).is_approved = P.row0.is_approved

\* C24: an update of a review that changes neither rating nor is_approved
\* starts no recompute, and no step of it changes the average or the
\* count of a store.
C24_NoNeedlessRecompute ==
    [][\A p \in Procs :
        (LeavesStats(procs'[p]) /\ procs'[p] # procs[p])
            => /\ procs'[p].pc \notin RecomputePcs
               /\ stores' = stores]_vars

\* what a handler answers when it reports an error
ErrorAnswers == {"500 Server Error"}

\* C22: when the recompute that a submit, an edit or a removal triggers
\* fails on the storage, the request is answered with an error, not
\* with success.
C22_RecomputeFailureReported ==
    \A p \in Procs :
        (/\ procs[p].op \in {"addReview", "updateReview", "deleteReview"}
         /\ procs[p].pc = "done"
         /\ procs[p].failed)
            => procs[p].res \in ErrorAnswers

\* C21: the average and the count of a store never come from a request
\* body: a store that createStore created has average 0.00 and count 0
\* whatever the body held, and no step of updateStore changes the two
\* fields of any store.
C21_StatsNotFromClient ==
    [][\A p \in Procs :
        /\ (/\ procs'[p].op = "postStore" /\ procs'[p] # procs[p]
            /\ procs'[p].res = "201 Store created")
               => stores'[procs'[p].id] = NoStats
        /\ (procs'[p].op = "putStore" /\ procs'[p] # procs[p])
               => stores' = stores]_vars

\* an updateStore whose body held rating fields was saved after a removal
\* of the store's review had been recomputed: the store has the recomputed
\* values, not the ones the body held nor the ones the update had loaded
C21_Witness ==
    \E p \in Procs :
        /\ procs[p].op = "putStore" /\ procs[p].pc = "done"
        /\ procs[p].res = "200 Store updated"
        /\ procs[p].sbody.averageRating = 500
        /\ procs[p].snap.total_reviews = 1
        /\ stores[procs[p].id] = NoStats
        /\ storeDocs[procs[p].id].name = "Deli"

\* request P is a create or a delete of a review, or an update of one that
\* changes rating or is_approved
ChangesStats(P) ==
    \/ P.op \in {"create", "addReview", "destroy", "deleteReview"}
    \/ P.op = "updateReview" /\ P.rating # 0
    \/ /\ P.op \in Methods
       /\ ApplyMethod(P.op, P.row0, P.reason).is_approved # P.row0.is_approved

\* request P completed and the storage did not fail under it
Completed(P) ==
    /\ P.pc = "done"
    /\ P.res \in {"ok", "201 Review added", "200 ok"}
    /\ ~P.failed

\* C23: a create, a delete, or an update of a review that changes rating
\* or is_approved completes only out of the write of a recompute of the
\* review's store, and that recompute read the reviews of the store when
\* the change was already stored.
C23_RecomputeFollowsChange ==
    [][\A p \in Procs :
        /\ (/\ procs[p].pc # "done"
            /\ Completed(procs'[p]) /\ ChangesStats(procs'[p]))
               => /\ procs[p].pc \in {"saveStore", "usrUpdate"}
                  /\ procs[p].row0 # NoRow => procs[p].store = procs[p].row0.store_id
        /\ (/\ procs[p].pc \in {"getRatings", "usrFind"}
            /\ procs'[p].pc \in {"saveStore", "usrUpdate"}
            /\ ChangesStats(procs[p]))
               => /\ procs[p].op \in {"create", "addReview"}
                        => procs[p].id \in 1..(nextId - 1)
                  /\ procs[p].op \in {"destroy", "deleteReview"}
                        => procs[p].id \notin DOMAIN ratings
                  /\ procs'[p].calc =
                        IF procs[p].layer = "model"
                        THEN RatingStats(procs[p].snap, ratings,
                                         GetRatings(ratings, procs[p].store))
                        ELSE StoreRating(ratings,
                                         ReviewFind(ratings, procs[p].store))]_vars

\* a flag of an approved review completed while another request was in
\* flight, after its recompute had written the store
C23_Witness ==
    \E p \in Procs :
        /\ procs[p].op = "flag" /\ Completed(procs[p])
        /\ procs[p].row0.is_approved
        /\ ~serial
        /\ \E q \in Procs \ {p} : procs[q].pc \notin {"idle", "done"}

\* the store of the review request P works on, R being the stored
\* reviews: that of the row the request loaded, or of the row it created,
\* or the one it names
ReviewStore(P, R) ==
    IF P.row0 # NoRow THEN P.row0.store_id
    ELSE IF P.op = "create" /\ P.id \in DOMAIN R THEN R[P.id].store_id
    ELSE P.store

\* operations on stores themselves
StoreOps == {"postStore", "putStore"}

\* C30: a step of an operation on a review of store T leaves the
\* statistics of every other store as they were, and no step changes
\* the store_id of a stored review.
C30_OtherStoresUntouched ==
    [][/\ \A id \in DOMAIN ratings \cap DOMAIN ratings' :
            ratings'[id].store_id = ratings[id].store_id
       /\ \A p \in Procs :
            (procs'[p].pc # procs[p].pc /\ procs'[p].op \notin StoreOps)
               => \A s \in StoreIds \ {ReviewStore(procs'[p], ratings')} :
                      stores'[s] = stores[s]]_vars

\* a request on a review of store 2 wrote the statistics of store 2 while
\* store 1 had a review and statistics of its own
C30_Witness ==
    \E p \in Procs :
        /\ procs[p].pc = "done" /\ procs[p].op \in Methods \cup {"destroy", "deleteReview"}
        /\ ReviewStore(procs[p], ratings) = 2 /\ procs[p].store = 2
        /\ procs[p].res \in {"ok", "200 ok"}
        /\ stores[2] = procs[p].calc
        /\ stores[1] # NoStats
        /\ \E id \in DOMAIN ratings : ratings[id].store_id = 1

====
